---- MODULE Spec2Model ----
(***************************************************************************)
(* Model of the lab3 client: Play::prepare (script parsing, concurrent     *)
(* scene preparation, ordered join) followed by Play::recite.              *)
(*                                                                         *)
(* Representation of text.  A trimmed line of a script or scene-config     *)
(* file is the tuple of its whitespace-delimited tokens, which is what     *)
(* split_whitespace() yields.  A trimmed line of a dialogue file is <<>>   *)
(* (empty), <<tok>> (no whitespace in the line) or <<tok, rest>> (the      *)
(* pieces split_once(char::is_whitespace) yields, rest trimmed); tok is    *)
(* the tuple of its characters so that parse::<usize>() can be computed.   *)
(***************************************************************************)
EXTENDS Integers, Sequences, FiniteSets, TLC

\* ------------------------------------------------------------------ bounds
MaxScriptLines == 3
\* In the step-by-step preparation of one scene: the dialogue lines in the
\* files of its cast taken together, and the characters of the cast.
MaxSceneLines == 3

\* ------------------------------------------------------- program constants
SCENE_INDICATOR == "[scene]"
CONFIG_LINE_TOKENS == 2
MIN_CONFIG_LINES == 2
ERR_SCRIPT_GEN == 2
SUCCESS == 0

\* -------------------------------------------------------------- file system
\* What reading a file gives: its trimmed lines, or a failure to open or read.
Unreadable == [ok |-> FALSE, lines |-> <<>>]

Readable(lines) == [ok |-> TRUE, lines |-> lines]

\* The files that exist, with their trimmed lines.  Any other name cannot be
\* opened ("missing.txt", "nofile.txt").
Files ==
  ("conf1.txt" :> << <<"Alice", "a.txt">>, <<"Bob", "b.txt">> >>) @@
  ("conf2.txt" :> << <<"Bob", "b.txt">>, <<"Carol", "c.txt">>,
                     <<"Dan", "s.txt", "extra">>, <<"Zed">>, <<>>,
                     <<"Cy", "s.txt">>, <<"Adam", "b.txt">> >>) @@
  ("short.txt" :> << <<"Alice", "a.txt">> >>) @@
  ("bad.txt"   :> << <<"Alice", "a.txt">>, <<"Eve", "missing.txt">> >>) @@
  ("a.txt"     :> << << <<"1">>, "Hello" >> >>) @@
  ("b.txt"     :> << << <<"2">>, "Hi" >> >>) @@
  ("c.txt"     :> << << <<"3">>, "Zed" >>, << <<"x">>, "Oops" >>,
                     << <<"3">>, "Abc" >>, <<>>, << <<"S">> >>,
                     << <<"+", "4">>, "Plus" >>,
                     << <<"1", "8", "4", "4", "6", "7", "4", "4", "0", "7",
                          "3", "7", "0", "9", "5", "5", "1", "6", "1", "6">>,
                        "Big" >> >>) @@
  ("s.txt"     :> << >>)

\* The lines a script file may be made of.
ScriptLineSet ==
  { <<>>, <<"[scene]">>, <<"[scene]", "Act1">>, <<"[scene]", "Act", "2">>,
    <<"conf1.txt">>, <<"conf2.txt", "extra">>,
    <<"short.txt">>, <<"bad.txt">>, <<"nofile.txt">> }

\* Byte-lexicographic rank of the dialogue texts that occur in Files, as
\* String's Ord compares them.
TextRank == ("A" :> 0) @@ ("Abc" :> 1) @@ ("B" :> 2) @@ ("Big" :> 3)
            @@ ("Hello" :> 4) @@ ("Hi" :> 5) @@ ("Oops" :> 6) @@ ("Plus" :> 7)
            @@ ("Zed" :> 8)

\* declarations::grab_trimmed_file_lines: the trimmed lines, or failure.
grab_trimmed_file_lines(file_name) ==
  IF file_name \in DOMAIN Files THEN Readable(Files[file_name]) ELSE Unreadable

\* ------------------------------------------------------------ diagnostics
Fatal(what, arg) == <<"fatal", what, arg>>
Warning(what, arg) == <<"warning", what, arg>>

\* ------------------------------------------------------------------ state
VARIABLES
  whinge,          \* declarations::WHINGE_ON, set by parse_args
  script_file,     \* what reading the script file gives
  pc,              \* position of the main thread
  script_config,   \* Play::prepare's ScriptConfig: <<is_title, text>> pairs
  idx,             \* loop index of the for loops of Play::process_config
  title,           \* process_config's title buffer
  threads,         \* the spawned scene-preparation threads, in spawn order
  joined,          \* number of thread handles process_config has joined
  fragments,       \* Play.fragments
  prepared,        \* result of Play::prepare: "none", "ok" or "err"
  exit_code,       \* value handed to ReturnWrapper, -1 while running
  stdout,          \* what the process has written to stdout
  stderr,          \* what the main thread has written to stderr
  i,               \* Play::recite's fragment index (1-based)
  next_line_number,\* SceneFragment::recite's expected-line cursor
  cur_speaker,     \* SceneFragment::recite's most recent speaker
  parts,           \* a scene prepared step by step: per character its name,
                   \* the unread lines of its file, the pairs parsed so far
  locking          \* Play::recite's lock() calls on fragments and the drops
                   \* of their guards, in the order they happen

vars == << whinge, script_file, pc, script_config, idx, title, threads,
           joined, fragments, prepared, exit_code, stdout, stderr, i,
           next_line_number, cur_speaker, parts, locking >>

\* ------------------------------------------------------------------ Player
Digits == {"0", "1", "2", "3", "4", "5", "6", "7", "8", "9"}

DigitVal == ("0" :> 0) @@ ("1" :> 1) @@ ("2" :> 2) @@ ("3" :> 3) @@ ("4" :> 4)
            @@ ("5" :> 5) @@ ("6" :> 6) @@ ("7" :> 7) @@ ("8" :> 8) @@ ("9" :> 9)

NoNumber == -1

RECURSIVE DecimalValue(_)
DecimalValue(ds) ==
  IF ds = <<>> THEN 0
  ELSE 10 * DecimalValue(SubSeq(ds, 1, Len(ds) - 1)) + DigitVal[ds[Len(ds)]]

\* The decimal digits of usize::MAX = 2^64 - 1.
UsizeMaxDigits ==
  <<"1", "8", "4", "4", "6", "7", "4", "4", "0", "7",
    "3", "7", "0", "9", "5", "5", "1", "6", "1", "5">>

RECURSIVE StripZeros(_)
StripZeros(ds) ==
  IF ds # <<>> /\ ds[1] = "0" THEN StripZeros(Tail(ds)) ELSE ds

\* Of two digit strings of the same length, a denotes the greater number.
RECURSIVE DigitsGreater(_, _)
DigitsGreater(a, b) ==
  IF a = <<>> THEN FALSE
  ELSE IF DigitVal[a[1]] # DigitVal[b[1]] THEN DigitVal[a[1]] > DigitVal[b[1]]
       ELSE DigitsGreater(Tail(a), Tail(b))

\* The number the digits denote does not fit usize (checked_mul/checked_add
\* fail in from_str_radix).
Overflows(ds) ==
  LET sig == StripZeros(ds)
  IN  \/ Len(sig) > Len(UsizeMaxDigits)
      \/ Len(sig) = Len(UsizeMaxDigits) /\ DigitsGreater(sig, UsizeMaxDigits)

\* str::parse::<usize>: an optional '+' then one or more decimal digits whose
\* value fits usize.
ParseUsize(tok) ==
  LET ds == IF tok # <<>> /\ tok[1] = "+" THEN Tail(tok) ELSE tok
  IN  IF ds # <<>> /\ (\A k \in 1..Len(ds) : ds[k] \in Digits) /\ ~Overflows(ds)
      THEN DecimalValue(StripZeros(ds)) ELSE NoNumber

\* Player::new
PlayerNew(name) == [name |-> name, lines |-> <<>>, line_index |-> 0]

\* add_script_line as it would be if the verbose run kept a line whose
\* number does not parse, under number 0, next to warning about it.
AddScriptLineKeepsBad(acc, unparsed_line) ==
  IF Len(unparsed_line) = 0 THEN acc
  ELSE IF Len(unparsed_line) = 1
       THEN [acc EXCEPT !.err =
               IF whinge THEN Append(@, Warning("single token", unparsed_line[1]))
               ELSE @]
       ELSE LET num == ParseUsize(unparsed_line[1])
            IN  IF num # NoNumber
                THEN [acc EXCEPT !.lines = Append(@, <<num, unparsed_line[2]>>)]
                ELSE IF whinge
                THEN [lines |-> Append(acc.lines, <<0, unparsed_line[2]>>),
                      err |-> Append(acc.err,
                                     Warning("not usize", unparsed_line[1]))]
                ELSE acc

\* add_script_line as it would be if a line of a single token were kept as
\* line 0 instead of dropped.
AddScriptLineKeepsSingle(acc, unparsed_line) ==
  IF Len(unparsed_line) = 0 THEN acc
  ELSE IF Len(unparsed_line) = 1
       THEN [lines |-> Append(acc.lines, <<0, "A">>),
             err |-> IF whinge
                     THEN Append(acc.err, Warning("single token", unparsed_line[1]))
                     ELSE acc.err]
       ELSE LET num == ParseUsize(unparsed_line[1])
            IN  IF num # NoNumber
                THEN [acc EXCEPT !.lines = Append(@, <<num, unparsed_line[2]>>)]
                ELSE [acc EXCEPT !.err =
                        IF whinge
                        THEN Append(@, Warning("not usize", unparsed_line[1]))
                        ELSE @]

\* Player::add_script_line on (lines so far, diagnostics so far)
add_script_line(acc, unparsed_line) ==
  IF Len(unparsed_line) = 0 THEN acc
  ELSE IF Len(unparsed_line) = 1
       THEN [acc EXCEPT !.err =
               IF whinge THEN Append(@, Warning("single token", unparsed_line[1]))
               ELSE @]
       ELSE LET num == ParseUsize(unparsed_line[1])
            IN  IF num # NoNumber
                THEN [acc EXCEPT !.lines = Append(@, <<num, unparsed_line[2]>>)]
                ELSE [acc EXCEPT !.err =
                        IF whinge
                        THEN Append(@, Warning("not usize", unparsed_line[1]))
                        ELSE @]

\* Ord of (usize, String): by number, then by text.
LineLessEq(x, y) ==
  \/ x[1] < y[1]
  \/ x[1] = y[1] /\ TextRank[x[2]] <= TextRank[y[2]]

\* Insert x behind every element that is not greater than it (stable).
RECURSIVE InsertLine(_, _)
InsertLine(sorted, x) ==
  IF sorted = <<>> THEN <<x>>
  ELSE IF LineLessEq(sorted[Len(sorted)], x) THEN Append(sorted, x)
       ELSE Append(InsertLine(SubSeq(sorted, 1, Len(sorted) - 1), x),
                   sorted[Len(sorted)])

\* Player::prepare's sort as it would be if it were left out.
SortLinesOmitted(ls) == ls

\* Vec<(usize, String)>::sort
RECURSIVE SortLines(_)
SortLines(ls) ==
  IF ls = <<>> THEN <<>>
  ELSE InsertLine(SortLines(SubSeq(ls, 1, Len(ls) - 1)), ls[Len(ls)])

RECURSIVE AddScriptLines(_, _)
AddScriptLines(acc, raw) ==
  IF raw = <<>> THEN acc
  ELSE AddScriptLines(add_script_line(acc, Head(raw)), Tail(raw))

\* Player::prepare as it would be if an unreadable file were skipped instead
\* of panicking: the character is left silent.
PlayerPrepareNoPanic(name, file_name) ==
  LET read == grab_trimmed_file_lines(file_name)
      acc == AddScriptLines([lines |-> <<>>, err |-> <<>>], read.lines)
  IN  [panicked |-> FALSE,
       player |-> [name |-> name, lines |-> SortLines(acc.lines),
                   line_index |-> 0],
       err |-> acc.err]

\* Player::prepare.  panicked: the file could not be read and the thread
\* panics; otherwise player holds the sorted lines.
PlayerPrepare(name, file_name) ==
  LET read == grab_trimmed_file_lines(file_name)
      raw == read.lines
  IN  IF ~read.ok
      THEN [panicked |-> TRUE, player |-> PlayerNew(name),
            err |-> << Fatal("open", file_name) >>]
      ELSE LET acc == AddScriptLines([lines |-> <<>>, err |-> <<>>], raw)
           IN  [panicked |-> FALSE,
                player |-> [name |-> name, lines |-> SortLines(acc.lines),
                            line_index |-> 0],
                err |-> acc.err]

\* Player::next_line
NoLine == -1
next_line(p) ==
  IF p.line_index < Len(p.lines) THEN p.lines[p.line_index + 1][1] ELSE NoLine

\* Ord for Player as it would be if the names broke the ties.
NameRank == ("Abe" :> 1) @@ ("Adam" :> 2) @@ ("Alice" :> 3) @@ ("Amy" :> 4)
            @@ ("Bob" :> 5) @@ ("Carol" :> 6) @@ ("Cy" :> 7) @@ ("Dan" :> 8)
            @@ ("Eve" :> 9) @@ ("Ian" :> 10) @@ ("Max" :> 11) @@ ("Zed" :> 12)

PlayerCmpNames(p, q) ==
  LET ByName == IF NameRank[p.name] < NameRank[q.name] THEN "Less"
                ELSE IF NameRank[p.name] = NameRank[q.name] THEN "Equal"
                ELSE "Greater"
  IN  IF Len(p.lines) = 0 /\ Len(q.lines) = 0 THEN ByName
      ELSE IF Len(p.lines) = 0 THEN "Less"
      ELSE IF Len(q.lines) = 0 THEN "Greater"
      ELSE IF p.lines[1][1] < q.lines[1][1] THEN "Less"
      ELSE IF p.lines[1][1] > q.lines[1][1] THEN "Greater"
      ELSE ByName

\* Ord for Player: "Less", "Equal" or "Greater"
PlayerCmp(p, q) ==
  LET self_silent == Len(p.lines) = 0
      other_silent == Len(q.lines) = 0
  IN  CASE self_silent /\ other_silent -> "Equal"
        [] self_silent /\ ~other_silent -> "Less"
        [] ~self_silent /\ other_silent -> "Greater"
        [] OTHER -> IF p.lines[1][1] < q.lines[1][1] THEN "Less"
                    ELSE IF p.lines[1][1] = q.lines[1][1] THEN "Equal"
                    ELSE "Greater"

\* ----------------------------------------------------------- SceneFragment
\* SceneFragment::new
SceneFragmentNew(t) == [scene_title |-> t, characters |-> <<>>]

\* add_config as it would be if only lines of exactly two tokens were added.
SceneAddConfigExact(acc, line) ==
  [play_config |-> IF Len(line) = CONFIG_LINE_TOKENS
                   THEN Append(acc.play_config, <<line[1], line[2]>>)
                   ELSE acc.play_config,
   err |-> IF Len(line) # CONFIG_LINE_TOKENS /\ whinge
           THEN Append(acc.err, Warning("not two tokens", line))
           ELSE acc.err]

\* SceneFragment::add_config on (play_config so far, diagnostics so far)
scene_add_config(acc, line) ==
  LET warned == IF Len(line) # CONFIG_LINE_TOKENS /\ whinge
                THEN Append(acc.err, Warning("not two tokens", line))
                ELSE acc.err
  IN  [play_config |-> IF Len(line) >= CONFIG_LINE_TOKENS
                       THEN Append(acc.play_config, <<line[1], line[2]>>)
                       ELSE acc.play_config,
       err |-> warned]

RECURSIVE SceneAddConfigs(_, _)
SceneAddConfigs(acc, lines) ==
  IF lines = <<>> THEN acc
  ELSE SceneAddConfigs(scene_add_config(acc, Head(lines)), Tail(lines))

\* SceneFragment::read_config
scene_read_config(config_file_name) ==
  LET read == grab_trimmed_file_lines(config_file_name)
      lines == read.lines
  IN  IF ~read.ok
      THEN [ok |-> FALSE, play_config |-> <<>>,
            err |-> << Fatal("open", config_file_name) >>]
      ELSE IF Len(lines) < MIN_CONFIG_LINES
      THEN [ok |-> FALSE, play_config |-> <<>>,
            err |-> << Fatal("short config", config_file_name) >>]
      ELSE LET acc == SceneAddConfigs([play_config |-> <<>>, err |-> <<>>], lines)
           IN  [ok |-> TRUE, play_config |-> acc.play_config, err |-> acc.err]

\* SceneFragment::process_config: one Player per (name, file) pair, in order;
\* stops at the first Player::prepare that panics.
RECURSIVE scene_process_config(_, _)
scene_process_config(acc, play_config) ==
  IF play_config = <<>> THEN acc
  ELSE LET r == PlayerPrepare(Head(play_config)[1], Head(play_config)[2])
       IN  IF r.panicked
           THEN [acc EXCEPT !.panicked = TRUE, !.err = @ \o r.err]
           ELSE scene_process_config(
                  [acc EXCEPT !.characters = Append(@, r.player),
                              !.err = @ \o r.err],
                  Tail(play_config))

\* Insert p behind every character that does not compare Greater (stable).
RECURSIVE InsertPlayer(_, _)
InsertPlayer(sorted, p) ==
  IF sorted = <<>> THEN <<p>>
  ELSE IF PlayerCmp(sorted[Len(sorted)], p) # "Greater" THEN Append(sorted, p)
       ELSE Append(InsertPlayer(SubSeq(sorted, 1, Len(sorted) - 1), p),
                   sorted[Len(sorted)])

\* characters.sort_by(SceneFragment::compare_players)
RECURSIVE SortCast(_)
SortCast(cs) ==
  IF cs = <<>> THEN <<>>
  ELSE InsertPlayer(SortCast(SubSeq(cs, 1, Len(cs) - 1)), cs[Len(cs)])

\* SceneFragment::prepare.  result is the Result it returns; panicked when a
\* Player::prepare panicked inside it.
ScenePrepare(frag, config_file_name) ==
  LET rc == scene_read_config(config_file_name)
  IN  IF ~rc.ok
      THEN [panicked |-> FALSE, result |-> "Err", frag |-> frag, err |-> rc.err]
      ELSE LET pr == scene_process_config(
                       [panicked |-> FALSE, characters |-> frag.characters,
                        err |-> rc.err], rc.play_config)
           IN  IF pr.panicked
               THEN [panicked |-> TRUE, result |-> "Err", frag |-> frag,
                     err |-> pr.err]
               ELSE [panicked |-> FALSE, result |-> "Ok",
                     frag |-> [frag EXCEPT !.characters = SortCast(pr.characters)],
                     err |-> pr.err]

\* The names of a cast, in cast order.
Names(frag) == [k \in 1..Len(frag.characters) |-> frag.characters[k].name]

Reverse(seq) == [k \in 1..Len(seq) |-> seq[Len(seq) + 1 - k]]

NameSet(frag) == {frag.characters[k].name : k \in 1..Len(frag.characters)}

\* A line written to stdout: its kind and its text as a tuple of words.
\* "title" stands for writeln!("\n{}\n", title), "speaker" for
\* writeln!("\n {}", name) and "blank" for writeln!().
Out(kind, words) == <<kind, words>>

\* The title line written by enter and enter_all.
TitleOut(frag) ==
  IF frag.scene_title # <<>> THEN << Out("title", frag.scene_title) >> ELSE <<>>

RECURSIVE Announce(_, _, _)
Announce(kind, names, other_names) ==
  IF names = <<>> THEN <<>>
  ELSE (IF Head(names) \notin other_names THEN << Out(kind, <<Head(names)>>) >>
        ELSE <<>>) \o Announce(kind, Tail(names), other_names)

\* enter as it would be if the previous cast were not consulted.
EnterNoDiff(self, other) ==
  TitleOut(self) \o Announce("enter", Names(self), {})

\* SceneFragment::enter: what it writes to stdout
enter(self, other) ==
  TitleOut(self) \o Announce("enter", Names(self), NameSet(other))

\* SceneFragment::enter_all
enter_all(self) == TitleOut(self) \o Announce("enter", Names(self), {})

\* exit as it would be without .rev(): exits announced in cast order.
ExitForward(self, other) ==
  << Out("blank", <<>>) >> \o Announce("exit", Names(self), NameSet(other))
  \o << Out("blank", <<>>) >>

\* SceneFragment::exit
exit(self, other) ==
  << Out("blank", <<>>) >> \o Announce("exit", Reverse(Names(self)), NameSet(other))
  \o << Out("blank", <<>>) >>

\* exit_all as it would be without .rev().
ExitAllForward(self) ==
  << Out("blank", <<>>) >> \o Announce("exit", Names(self), {})
  \o << Out("blank", <<>>) >>

\* SceneFragment::exit_all
exit_all(self) ==
  << Out("blank", <<>>) >> \o Announce("exit", Reverse(Names(self)), {})
  \o << Out("blank", <<>>) >>

\* speak as it would be if the cursor went two lines on.
SpeakSkipsALine(p, recent_player) ==
  IF p.line_index < Len(p.lines)
  THEN [player |-> [p EXCEPT !.line_index = @ + 2],
        recent |-> p.name,
        out |-> (IF recent_player # p.name THEN << Out("speaker", <<p.name>>) >>
                 ELSE <<>>)
                \o << Out("line", <<p.lines[p.line_index + 1][2]>>) >>]
  ELSE [player |-> p, recent |-> recent_player, out |-> <<>>]

\* Player::speak on (player, most recent speaker): the player and speaker
\* afterwards and what was written to stdout.
speak(p, recent_player) ==
  IF p.line_index < Len(p.lines)
  THEN [player |-> [p EXCEPT !.line_index = @ + 1],
        recent |-> p.name,
        out |-> (IF recent_player # p.name THEN << Out("speaker", <<p.name>>) >>
                 ELSE <<>>)
                \o << Out("line", <<p.lines[p.line_index + 1][2]>>) >>]
  ELSE [player |-> p, recent |-> recent_player, out |-> <<>>]

\* The minimum of the pending line numbers of a cast, NoLine if none pends.
MinLine(characters) ==
  LET pending == {next_line(characters[k]) : k \in 1..Len(characters)} \ {NoLine}
  IN  IF pending = {} THEN NoLine
      ELSE CHOOSE m \in pending : \A n \in pending : m <= n

\* The speaking loop as it would be if it stopped at the first character
\* that holds the minimum.
RECURSIVE SpeakLoopFirstOnly(_, _, _)
SpeakLoopFirstOnly(acc, k, min_line_number) ==
  IF k > Len(acc.characters) \/ acc.num_speakers >= 1 THEN acc
  ELSE IF next_line(acc.characters[k]) = min_line_number
       THEN LET r == speak(acc.characters[k], acc.cur_speaker)
            IN  SpeakLoopFirstOnly(
                  [characters |-> [acc.characters EXCEPT ![k] = r.player],
                   cur_speaker |-> r.recent,
                   out |-> acc.out \o r.out,
                   num_speakers |-> acc.num_speakers + 1],
                  k + 1, min_line_number)
       ELSE SpeakLoopFirstOnly(acc, k + 1, min_line_number)

\* The "for c in &self.characters" loop of SceneFragment::recite from
\* character k on.
RECURSIVE SpeakLoop(_, _, _)
SpeakLoop(acc, k, min_line_number) ==
  IF k > Len(acc.characters) THEN acc
  ELSE IF next_line(acc.characters[k]) = min_line_number
       THEN LET r == speak(acc.characters[k], acc.cur_speaker)
            IN  SpeakLoop([characters |-> [acc.characters EXCEPT ![k] = r.player],
                           cur_speaker |-> r.recent,
                           out |-> acc.out \o r.out,
                           num_speakers |-> acc.num_speakers + 1],
                          k + 1, min_line_number)
       ELSE SpeakLoop(acc, k + 1, min_line_number)

\* The gap warnings as they would be if written whatever the verbose flag is.
RECURSIVE GapWarningsAlways(_, _)
GapWarningsAlways(from, to) ==
  IF from >= to THEN <<>>
  ELSE << Warning("missing line", from) >> \o GapWarningsAlways(from + 1, to)

\* The gap warnings as they would be if the loop ran while
\* min_line_number >= next_line_number.
RECURSIVE GapWarningsThroughMin(_, _)
GapWarningsThroughMin(from, to) ==
  IF from > to \/ ~whinge THEN <<>>
  ELSE << Warning("missing line", from) >>
       \o GapWarningsThroughMin(from + 1, to)

\* The warnings of the "while min_line_number > next_line_number" loop.
RECURSIVE GapWarnings(_, _)
GapWarnings(from, to) ==
  IF from >= to \/ ~whinge THEN <<>>
  ELSE << Warning("missing line", from) >> \o GapWarnings(from + 1, to)

\* ---------------------------------------------------------------------- Play
\* Play::add_config on (script_config so far, diagnostics so far)
play_add_config(acc, tokens) ==
  IF Len(tokens) = 0 THEN acc
  ELSE IF Len(tokens) = 1 /\ tokens[1] = SCENE_INDICATOR
  THEN [acc EXCEPT !.err = IF whinge
                           THEN Append(@, Warning("scene without title", tokens))
                           ELSE @]
  ELSE IF tokens[1] = SCENE_INDICATOR
  THEN [acc EXCEPT !.script_config = Append(@, <<TRUE, Tail(tokens)>>)]
  ELSE [script_config |-> Append(acc.script_config, <<FALSE, tokens[1]>>),
        err |-> IF Len(tokens) # 1 /\ whinge
                THEN Append(acc.err, Warning("additional tokens", tokens))
                ELSE acc.err]

RECURSIVE PlayAddConfigs(_, _)
PlayAddConfigs(acc, lines) ==
  IF lines = <<>> THEN acc
  ELSE PlayAddConfigs(play_add_config(acc, Head(lines)), Tail(lines))

NoExit == -1

ScriptFiles ==
  {Unreadable} \cup
  {Readable(ls) : ls \in UNION {[1..n -> ScriptLineSet] : n \in 0..MaxScriptLines}}

Init ==
  /\ whinge \in BOOLEAN
  /\ script_file \in ScriptFiles
  /\ pc = "read_config"
  /\ script_config = <<>>
  /\ idx = 1
  /\ title = <<>>
  /\ threads = <<>>
  /\ joined = 0
  /\ fragments = <<>>
  /\ prepared = "none"
  /\ exit_code = NoExit
  /\ stdout = <<>>
  /\ stderr = <<>>
  /\ i = 1
  /\ next_line_number = 0
  /\ cur_speaker = ""
  /\ parts = <<>>
  /\ locking = <<>>

\* Play::prepare returns Err(ERR_SCRIPT_GEN) after writing msg to stderr.
PrepareFails(msg) ==
  /\ prepared' = "err"
  /\ pc' = "prepare_returned"
  /\ stderr' = stderr \o msg

\* Play::read_config, called first by Play::prepare
ReadConfig ==
  /\ pc = "read_config"
  /\ IF ~script_file.ok
     THEN /\ PrepareFails(<< Fatal("open", "script") >>)
          /\ UNCHANGED script_config
     ELSE IF Len(script_file.lines) = 0
     THEN /\ PrepareFails(<< Fatal("empty script", "script") >>)
          /\ UNCHANGED script_config
     ELSE LET acc == PlayAddConfigs([script_config |-> <<>>, err |-> <<>>],
                                    script_file.lines)
          IN  /\ script_config' = acc.script_config
              /\ stderr' = stderr \o acc.err
              /\ pc' = "dispatch"
              /\ UNCHANGED prepared
  /\ UNCHANGED << locking, whinge, script_file, parts, idx, title, threads, joined, fragments,
                  exit_code, stdout, i, next_line_number, cur_speaker >>

\* Dispatch as it would be if the title buffer were not cleared after a
\* fragment has taken it.
DispatchKeepsTitle ==
  /\ pc = "dispatch"
  /\ idx <= Len(script_config)
  /\ LET tup == script_config[idx]
     IN  IF tup[1]
         THEN /\ title' = tup[2]
              /\ UNCHANGED threads
         ELSE /\ threads' = Append(threads,
                              [state |-> "running",
                               frag |-> SceneFragmentNew(title),
                               file |-> tup[2],
                               err |-> <<>>])
              /\ UNCHANGED title
  /\ idx' = idx + 1
  /\ UNCHANGED << locking, whinge, script_file, parts, pc, script_config, joined, fragments,
                  prepared, exit_code, stdout, stderr, i, next_line_number,
                  cur_speaker >>

\* One iteration of the first for loop of Play::process_config: remember the
\* title, or spawn the thread that prepares the scene.
Dispatch ==
  /\ pc = "dispatch"
  /\ idx <= Len(script_config)
  /\ LET tup == script_config[idx]
     IN  IF tup[1]
         THEN /\ title' = tup[2]
              /\ UNCHANGED threads
         ELSE /\ threads' = Append(threads,
                              [state |-> "running",
                               frag |-> SceneFragmentNew(title),
                               file |-> tup[2],
                               err |-> <<>>])
              /\ title' = <<>>
  /\ idx' = idx + 1
  /\ UNCHANGED << locking, whinge, script_file, parts, pc, script_config, joined, fragments,
                  prepared, exit_code, stdout, stderr, i, next_line_number,
                  cur_speaker >>

\* The body of a spawned thread: frag.prepare(&text); frag
SceneThread(k) ==
  /\ pc # "exited"
  /\ k \in 1..Len(threads)
  /\ threads[k].state = "running"
  /\ LET r == ScenePrepare(threads[k].frag, threads[k].file)
     IN  threads' = [threads EXCEPT ![k] =
                       [state |-> IF r.panicked THEN "panicked" ELSE "finished",
                        frag |-> r.frag,
                        file |-> threads[k].file,
                        err |-> r.err]]
  /\ UNCHANGED << locking, whinge, script_file, parts, pc, script_config, idx, title, joined,
                  fragments, prepared, exit_code, stdout, stderr, i,
                  next_line_number, cur_speaker >>

\* Join as it would be if the handles were taken from the back of the vector.
JoinLastFirst ==
  /\ pc = "dispatch"
  /\ idx > Len(script_config)
  /\ joined < Len(threads)
  /\ threads[Len(threads) - joined].state # "running"
  /\ joined' = joined + 1
  /\ IF threads[Len(threads) - joined].state = "panicked"
     THEN /\ prepared' = "err"
          /\ pc' = "prepare_returned"
          /\ UNCHANGED << fragments, stderr >>
     ELSE /\ fragments' = Append(fragments, threads[Len(threads) - joined].frag)
          /\ UNCHANGED << prepared, pc, stderr >>
  /\ UNCHANGED << locking, whinge, script_file, parts, script_config, idx, title, threads,
                  exit_code, stdout, i, next_line_number, cur_speaker >>

\* One iteration of the second for loop of Play::process_config: h.join()
\* blocks until the thread has ended.
Join ==
  /\ pc = "dispatch"
  /\ idx > Len(script_config)
  /\ joined < Len(threads)
  /\ threads[joined + 1].state # "running"
  /\ joined' = joined + 1
  /\ IF threads[joined + 1].state = "panicked"
     THEN /\ PrepareFails(<<>>)
          /\ UNCHANGED fragments
     ELSE /\ fragments' = Append(fragments, threads[joined + 1].frag)
          /\ UNCHANGED << prepared, pc, stderr >>
  /\ UNCHANGED << locking, whinge, script_file, parts, script_config, idx, title, threads,
                  exit_code, stdout, i, next_line_number, cur_speaker >>

\* PrepareCheck as it would be if every fragment had to carry a title.
PrepareCheckAllTitles ==
  /\ pc = "dispatch"
  /\ idx > Len(script_config)
  /\ joined = Len(threads)
  /\ IF /\ Len(fragments) # 0
        /\ \A k \in 1..Len(fragments) : fragments[k].scene_title # <<>>
     THEN /\ prepared' = "ok"
          /\ pc' = "prepare_returned"
          /\ UNCHANGED stderr
     ELSE /\ prepared' = "err"
          /\ pc' = "prepare_returned"
          /\ stderr' = Append(stderr, Fatal("script generation failed", "script"))
  /\ UNCHANGED << locking, whinge, script_file, parts, script_config, idx, title, threads,
                  joined, fragments, exit_code, stdout, i, next_line_number,
                  cur_speaker >>

\* Play::process_config returns Ok(()) and Play::prepare checks the fragments.
PrepareCheck ==
  /\ pc = "dispatch"
  /\ idx > Len(script_config)
  /\ joined = Len(threads)
  /\ IF Len(fragments) # 0 /\ fragments[1].scene_title # <<>>
     THEN /\ prepared' = "ok"
          /\ pc' = "prepare_returned"
          /\ UNCHANGED stderr
     ELSE PrepareFails(<< Fatal("script generation failed", "script") >>)
  /\ UNCHANGED << locking, whinge, script_file, parts, script_config, idx, title, threads,
                  joined, fragments, exit_code, stdout, i, next_line_number,
                  cur_speaker >>

\* MainAfterPrepare as it would be if main ignored the result of prepare.
MainIgnoresPrepare ==
  /\ pc = "prepare_returned"
  /\ pc' = IF Len(fragments) = 0 THEN "recite_done" ELSE "enter"
  /\ i' = 1
  /\ UNCHANGED << locking, whinge, script_file, parts, script_config, idx, title, threads,
                  joined, fragments, prepared, exit_code, stderr, stdout,
                  next_line_number, cur_speaker >>

\* main after play.prepare: return the error, or go on to play.recite().
MainAfterPrepare ==
  /\ pc = "prepare_returned"
  /\ IF prepared = "err"
     THEN /\ exit_code' = ERR_SCRIPT_GEN
          /\ pc' = "exited"
          /\ stderr' = Append(stderr, Fatal("exit code", ERR_SCRIPT_GEN))
     ELSE /\ pc' = IF Len(fragments) = 0 THEN "recite_done" ELSE "enter"
          /\ UNCHANGED << exit_code, stderr >>
  /\ i' = 1
  /\ UNCHANGED << locking, whinge, script_file, parts, script_config, idx, title, threads,
                  joined, fragments, prepared, stdout, next_line_number,
                  cur_speaker >>

\* A lock() call on fragment k that returned its guard, and the drop of the
\* guard.
Lock(k) == <<"lock", k>>
Unlock(k) == <<"unlock", k>>

\* The locking of Enter as it would be if the previous fragment were locked
\* before the current one.
EnterLocksPreviousFirst(k) ==
  IF k > 1 THEN << Lock(k - 1), Lock(k), Unlock(k - 1) >> ELSE << Lock(k) >>

\* Play::recite, fragment k up to the call of SceneFragment::recite: lock the
\* fragment; with a previous fragment, lock it and drop its guard at the end
\* of the if block.
EnterLocking(k) ==
  IF k > 1 THEN << Lock(k), Lock(k - 1), Unlock(k - 1) >> ELSE << Lock(k) >>

\* Play::recite, fragment k behind SceneFragment::recite: with a next
\* fragment of n, lock it and drop its guard at the end of the if block; drop
\* the fragment's own guard at the end of the loop body.
ExitLocking(k, n) ==
  IF k < n THEN << Lock(k + 1), Unlock(k + 1), Unlock(k) >> ELSE << Unlock(k) >>

\* Play::recite, fragment i: lock it, announce the entrances against the
\* previous fragment and call SceneFragment::recite.
Enter ==
  /\ pc = "enter"
  /\ stdout' = stdout \o (IF i > 1 THEN enter(fragments[i], fragments[i - 1])
                          ELSE enter_all(fragments[i]))
  /\ locking' = locking \o EnterLocking(i)
  /\ next_line_number' = 0
  /\ cur_speaker' = ""
  /\ pc' = "recite"
  /\ UNCHANGED << whinge, script_file, parts, script_config, idx, title, threads,
                  joined, fragments, prepared, exit_code, stderr, i >>

\* One iteration of the loop of SceneFragment::recite.
ReciteStep ==
  /\ pc = "recite"
  /\ LET cast == fragments[i].characters
         min_line_number == MinLine(cast)
     IN  IF min_line_number = NoLine
         THEN /\ pc' = "exit"
              /\ UNCHANGED << fragments, stdout, stderr, next_line_number,
                              cur_speaker >>
         ELSE LET gaps == GapWarnings(next_line_number, min_line_number)
                  nln == IF min_line_number > next_line_number
                         THEN min_line_number ELSE next_line_number
                  r == SpeakLoop([characters |-> cast,
                                  cur_speaker |-> cur_speaker,
                                  out |-> <<>>, num_speakers |-> 0],
                                 1, min_line_number)
              IN  /\ fragments' = [fragments EXCEPT ![i].characters = r.characters]
                  /\ stdout' = stdout \o r.out
                  /\ cur_speaker' = r.cur_speaker
                  /\ stderr' = stderr \o gaps \o
                       (IF r.num_speakers # 1 /\ whinge
                        THEN << Warning("speakers", <<r.num_speakers,
                                                      min_line_number>>) >>
                        ELSE <<>>)
                  /\ next_line_number' = nln + 1
                  /\ UNCHANGED pc
  /\ UNCHANGED << locking, whinge, script_file, parts, script_config, idx, title, threads,
                  joined, prepared, exit_code, i >>

\* Exit as it would be if the exits were diffed against the previous fragment.
ExitDiffsPrevious ==
  /\ pc = "exit"
  /\ stdout' = stdout \o (IF i > 1
                          THEN exit(fragments[i], fragments[i - 1])
                          ELSE exit_all(fragments[i]))
  /\ i' = i + 1
  /\ pc' = IF i < Len(fragments) THEN "enter" ELSE "recite_done"
  /\ locking' = locking \o ExitLocking(i, Len(fragments))
  /\ UNCHANGED << whinge, script_file, parts, script_config, idx, title, threads,
                  joined, fragments, prepared, exit_code, stderr,
                  next_line_number, cur_speaker >>

\* Exit as it would be if the loop went on to the fragment after the next.
ExitSkipsNext ==
  /\ pc = "exit"
  /\ stdout' = stdout \o (IF i < Len(fragments)
                          THEN exit(fragments[i], fragments[i + 1])
                          ELSE exit_all(fragments[i]))
  /\ i' = i + 2
  /\ pc' = IF i + 2 <= Len(fragments) THEN "enter" ELSE "recite_done"
  /\ locking' = locking \o ExitLocking(i, Len(fragments))
  /\ UNCHANGED << whinge, script_file, parts, script_config, idx, title, threads,
                  joined, fragments, prepared, exit_code, stderr,
                  next_line_number, cur_speaker >>

\* Play::recite, fragment i after SceneFragment::recite: announce the exits
\* against the next fragment, release the lock, go to the next fragment.
Exit ==
  /\ pc = "exit"
  /\ stdout' = stdout \o (IF i < Len(fragments)
                          THEN exit(fragments[i], fragments[i + 1])
                          ELSE exit_all(fragments[i]))
  /\ i' = i + 1
  /\ pc' = IF i < Len(fragments) THEN "enter" ELSE "recite_done"
  /\ locking' = locking \o ExitLocking(i, Len(fragments))
  /\ UNCHANGED << whinge, script_file, parts, script_config, idx, title, threads,
                  joined, fragments, prepared, exit_code, stderr,
                  next_line_number, cur_speaker >>

\* main after play.recite(): ReturnWrapper::new(Ok(()))
MainReturn ==
  /\ pc = "recite_done"
  /\ exit_code' = SUCCESS
  /\ pc' = "exited"
  /\ UNCHANGED << locking, whinge, script_file, parts, script_config, idx, title, threads,
                  joined, fragments, prepared, stdout, stderr, i,
                  next_line_number, cur_speaker >>

Next ==
  \/ ReadConfig
  \/ Dispatch
  \/ \E k \in 1..MaxScriptLines + 1 : SceneThread(k)
  \/ Join
  \/ PrepareCheck
  \/ MainAfterPrepare
  \/ Enter
  \/ ReciteStep
  \/ Exit
  \/ MainReturn

Spec == Init /\ [][Next]_vars

\* ------------------------------------------- one scene, prepared in steps
\* The same SceneFragment code, followed statement by statement for one
\* scene whose cast and dialogue files are arbitrary: SceneFragment::
\* process_config and Player::prepare line by line, the two sorts, then the
\* recital of that scene by Enter, ReciteStep and Exit.

\* Trimmed dialogue lines: two of the same number with texts in descending
\* order, the same number under another text, a '+' number, a token that is
\* no number, a number too large for usize, a line of one token.
DialogueLineSet ==
  { << <<"2">>, "B" >>, << <<"2">>, "A" >>, << <<"+", "1">>, "A" >>,
    << <<"x">>, "A" >>, << <<"S">> >>,
    << <<"1", "8", "4", "4", "6", "7", "4", "4", "0", "7",
         "3", "7", "0", "9", "5", "5", "1", "6", "1", "6">>, "A" >> }

\* Names in the order of the scene's config file.
CastNames == <<"Zed", "Max", "Ian", "Amy", "Abe">>

\* f[1] + ... + f[n]
RECURSIVE SumOver(_, _)
SumOver(f, n) == IF n = 0 THEN 0 ELSE f[n] + SumOver(f, n - 1)

UnitScript == Readable(<< <<SCENE_INDICATOR, "Act1">>, <<"unit.txt">> >>)

UnitInit ==
  /\ whinge \in BOOLEAN
  /\ script_file = UnitScript
  /\ \E n \in 0..MaxSceneLines : \E lens \in [1..n -> 0..MaxSceneLines] :
       /\ SumOver(lens, n) <= MaxSceneLines
       /\ \E all \in [1..SumOver(lens, n) -> DialogueLineSet] :
            parts = [k \in 1..n |->
                       [name |-> CastNames[k],
                        unread |-> SubSeq(all, SumOver(lens, k - 1) + 1,
                                          SumOver(lens, k)),
                        lines |-> <<>>]]
       /\ pc = IF n = 0 THEN "sort_cast" ELSE "add_script_line"
  /\ script_config = << <<TRUE, <<"Act1">> >>, <<FALSE, "unit.txt">> >>
  /\ idx = 3
  /\ title = <<>>
  /\ threads = <<>>
  /\ joined = 0
  /\ fragments = << SceneFragmentNew(<<"Act1">>) >>
  /\ prepared = "ok"
  /\ exit_code = NoExit
  /\ stdout = <<>>
  /\ stderr = <<>>
  /\ i = 1
  /\ next_line_number = 0
  /\ cur_speaker = ""
  /\ locking = <<>>

\* The character whose file is being read: the one after those pushed.
CurPart == Len(fragments[1].characters) + 1

\* One iteration of the for loop of Player::prepare.
PrepareLine ==
  /\ pc = "add_script_line"
  /\ parts[CurPart].unread # <<>>
  /\ LET r == add_script_line([lines |-> parts[CurPart].lines, err |-> <<>>],
                              Head(parts[CurPart].unread))
     IN  /\ parts' = [parts EXCEPT ![CurPart].unread = Tail(@),
                                   ![CurPart].lines = r.lines]
         /\ stderr' = stderr \o r.err
  /\ UNCHANGED << locking, whinge, script_file, pc, script_config, idx, title, threads,
                  joined, fragments, prepared, exit_code, stdout, i,
                  next_line_number, cur_speaker >>

\* The end of Player::prepare, self.lines.sort(), and the push of the
\* character in SceneFragment::process_config.
PushCharacter ==
  /\ pc = "add_script_line"
  /\ parts[CurPart].unread = <<>>
  /\ fragments' = [fragments EXCEPT ![1].characters =
                     Append(@, [name |-> parts[CurPart].name,
                                lines |-> SortLines(parts[CurPart].lines),
                                line_index |-> 0])]
  /\ pc' = IF CurPart = Len(parts) THEN "sort_cast" ELSE "add_script_line"
  /\ UNCHANGED << locking, whinge, script_file, parts, script_config, idx, title,
                  threads, joined, prepared, exit_code, stdout, stderr, i,
                  next_line_number, cur_speaker >>

\* The end of SceneFragment::prepare: characters.sort_by(compare_players)
SortCharacters ==
  /\ pc = "sort_cast"
  /\ fragments' = [fragments EXCEPT ![1].characters = SortCast(@)]
  /\ pc' = "enter"
  /\ UNCHANGED << locking, whinge, script_file, parts, script_config, idx, title,
                  threads, joined, prepared, exit_code, stdout, stderr, i,
                  next_line_number, cur_speaker >>

UnitNext ==
  \/ PrepareLine
  \/ PushCharacter
  \/ SortCharacters
  \/ Enter
  \/ ReciteStep
  \/ Exit
  \/ MainReturn

UnitSpec == UnitInit /\ [][UnitNext]_vars


\* ================================================================ properties
\* The config-file entries of the script, in script order.
IsConfigEntry(e) == ~e[1]

ConfigEntries == SelectSeq(script_config, IsConfigEntry)

\* The position in script_config of the k-th config-file entry.
EntryPos(k) ==
  CHOOSE p \in 1..Len(script_config) :
    /\ ~script_config[p][1]
    /\ Cardinality({q \in 1..p : ~script_config[q][1]}) = k

\* The title given by the entry right before position p, if that is a title.
TitleBefore(p) ==
  IF p > 1 /\ script_config[p - 1][1] THEN script_config[p - 1][2] ELSE <<>>

\* The fragment that preparing the k-th config-file entry yields.
SceneOf(k) ==
  ScenePrepare(SceneFragmentNew(TitleBefore(EntryPos(k))),
               ConfigEntries[k][2]).frag

\* A fragment with every cursor back at the start.
Rewound(frag) ==
  [frag EXCEPT !.characters =
     [k \in 1..Len(frag.characters) |->
        [frag.characters[k] EXCEPT !.line_index = 0]]]

\* C1: after a successful Play::prepare the fragment sequence has exactly one
\* fragment per config-file entry of the script and the k-th fragment is the
\* one built from the k-th config-file entry, whatever the order in which the
\* preparation threads ended.
C1_FragmentsInScriptOrder ==
  prepared = "ok" =>
    /\ Len(fragments) = Len(ConfigEntries)
    /\ \A k \in 1..Len(fragments) : Rewound(fragments[k]) = SceneOf(k)

\* Two different scenes were prepared and joined, Play::prepare succeeded.
C1_Witness ==
  /\ prepared = "ok"
  /\ pc = "prepare_returned"
  /\ Len(fragments) >= 2
  /\ Len(fragments[1].characters) >= 2
  /\ Len(fragments[2].characters) >= 2
  /\ fragments[1].characters # fragments[2].characters

\* The config file names a Player whose dialogue file cannot be read.
HasUnreadablePart(config_file_name) ==
  LET rc == scene_read_config(config_file_name)
  IN  /\ rc.ok
      /\ \E j \in 1..Len(rc.play_config) :
           ~grab_trimmed_file_lines(rc.play_config[j][2]).ok

Reciting == pc \in {"enter", "recite", "exit", "recite_done"}

\* C2: if the dialogue file of a character of any scene of the script cannot be
\* opened or read, Play::prepare does not succeed, recitation never starts
\* and the run ends with exit code 2, whichever scene the character is in and
\* however the preparation threads interleave.
C2_UnreadablePartIsFatal ==
  (\E k \in 1..Len(ConfigEntries) : HasUnreadablePart(ConfigEntries[k][2])) =>
    /\ prepared # "ok"
    /\ ~Reciting
    /\ stdout = <<>>
    /\ pc = "prepare_returned" => prepared = "err"
    /\ pc = "exited" => exit_code = ERR_SCRIPT_GEN

\* The run ended with exit code 2 after the second scene's thread panicked on
\* an unreadable dialogue file while the first scene was prepared and joined.
C2_Witness ==
  /\ pc = "exited"
  /\ exit_code = ERR_SCRIPT_GEN
  /\ Len(threads) >= 2
  /\ threads[1].state = "finished"
  /\ threads[2].state = "panicked"
  /\ HasUnreadablePart(threads[2].file)
  /\ joined = 2

\* The config file cannot be read or has fewer than MIN_CONFIG_LINES lines.
BadConfigFile(config_file_name) ==
  LET read == grab_trimmed_file_lines(config_file_name)
  IN  ~read.ok \/ Len(read.lines) < MIN_CONFIG_LINES

\* C3: if a scene config file of the script is unreadable or has fewer than 2
\* lines, Play::prepare fails with the script-generation error and no
\* fragment of that scene is recited.
C3_BadConfigIsFatal ==
  (\E k \in 1..Len(ConfigEntries) : BadConfigFile(ConfigEntries[k][2])) =>
    /\ prepared # "ok"
    /\ ~Reciting
    /\ pc = "exited" => exit_code = ERR_SCRIPT_GEN

\* Play::prepare failed at a join: a joined thread had panicked.
FailedAtJoin ==
  /\ prepared = "err"
  /\ joined >= 1
  /\ threads[joined].state = "panicked"

\* C4: when Play::prepare fails because a scene-preparation task failed or
\* crashed, the fragment sequence holds no fragment of the tasks that did
\* succeed.
C4_NoPartialPlay == FailedAtJoin => fragments = <<>>

\* C5: Play::process_config does not return before every thread it spawned
\* has been joined.
C5_AllJoinedBeforeReturn ==
  (prepared # "none" /\ idx > Len(script_config)) => joined = Len(threads)

\* Every thread was joined and gave a fragment.
ProcessConfigOk ==
  /\ script_file.ok
  /\ Len(script_file.lines) # 0
  /\ idx > Len(script_config)
  /\ joined = Len(threads)
  /\ \A k \in 1..Len(threads) : threads[k].state = "finished"

\* C6: Play::prepare succeeds only if there is a fragment and the first
\* fragment's title is non-empty; with no fragment, or with a first
\* config-file entry that no title entry precedes, it fails with the
\* script-generation error; an empty title of a later fragment does not
\* make it fail.
C6_FirstTitleCheck ==
  prepared # "none" =>
    /\ prepared = "ok" =>
         Len(fragments) # 0 /\ fragments[1].scene_title # <<>>
    /\ (Len(fragments) = 0 \/ fragments[1].scene_title = <<>>) =>
         /\ prepared = "err"
         /\ pc = "exited" => exit_code = ERR_SCRIPT_GEN
    /\ (Len(ConfigEntries) # 0 /\ TitleBefore(EntryPos(1)) = <<>>) =>
         prepared = "err"
    /\ (ProcessConfigOk /\ Len(fragments) # 0
        /\ fragments[1].scene_title # <<>>) => prepared = "ok"

\* Play::prepare succeeded although the second fragment has no title.
C6_Witness ==
  /\ prepared = "ok"
  /\ Len(fragments) >= 2
  /\ fragments[1].scene_title # <<>>
  /\ fragments[2].scene_title = <<>>

\* No line of the script file yields a config-file entry.
NoConfigLine ==
  \A n \in 1..Len(script_file.lines) :
    LET tokens == script_file.lines[n]
    IN  Len(tokens) = 0 \/ tokens[1] = SCENE_INDICATOR

\* C7: an empty script file, or one that yields no config-file entry, ends
\* the run with exit code 2; whenever Play::prepare has not succeeded nothing
\* is on stdout, and Play::recite runs only after Play::prepare succeeded.
C7_NoEntryNoOutput ==
  /\ (script_file.ok /\ NoConfigLine /\ pc = "exited") =>
       exit_code = ERR_SCRIPT_GEN
  /\ (script_file.ok /\ NoConfigLine) => ~Reciting
  /\ prepared # "ok" => stdout = <<>>
  /\ Reciting => prepared = "ok"
  /\ (pc = "exited" /\ prepared # "ok") => exit_code = ERR_SCRIPT_GEN

\* A script of title lines only ended the run with exit code 2 and no output.
C7_Witness ==
  /\ pc = "exited"
  /\ exit_code = ERR_SCRIPT_GEN
  /\ script_file.ok
  /\ Len(script_file.lines) >= 1
  /\ NoConfigLine
  /\ Len(script_config) >= 1
  /\ stdout = <<>>

\* The script of the example: "[scene] Act1" and then "conf1.txt".
C8_Script == Readable(<< <<"[scene]", "Act1">>, <<"conf1.txt">> >>)

IsVisible(e) == e[1] # "blank"

\* stdout without its blank lines.
Visible(out) == SelectSeq(out, IsVisible)

IsPrefix(a, b) == Len(a) <= Len(b) /\ a = SubSeq(b, 1, Len(a))

C8_Expected ==
  << Out("title", <<"Act1">>),
     Out("enter", <<"Alice">>), Out("enter", <<"Bob">>),
     Out("speaker", <<"Alice">>), Out("line", <<"Hello">>),
     Out("speaker", <<"Bob">>), Out("line", <<"Hi">>),
     Out("exit", <<"Bob">>), Out("exit", <<"Alice">>) >>

\* C8: for the script "[scene] Act1" / "conf1.txt", conf1.txt listing
\* "Alice a.txt" and "Bob b.txt", a.txt = "1 Hello" and b.txt = "2 Hi", the
\* stdout events occur in exactly this order: title Act1, [Enter Alice.],
\* [Enter Bob.], speaker Alice, Hello, speaker Bob, Hi, [Exit Bob.],
\* [Exit Alice.].
C8_ExampleTranscript ==
  (script_file = C8_Script
   /\ Files["conf1.txt"] = << <<"Alice", "a.txt">>, <<"Bob", "b.txt">> >>
   /\ Files["a.txt"] = << << <<"1">>, "Hello" >> >>
   /\ Files["b.txt"] = << << <<"2">>, "Hi" >> >>) =>
    /\ IsPrefix(Visible(stdout), C8_Expected)
    /\ pc = "exited" => Visible(stdout) = C8_Expected /\ exit_code = SUCCESS

\* The run of the example script has ended.
C8_Witness ==
  /\ script_file = C8_Script
  /\ pc = "exited"
  /\ Len(stdout) > 0

Announced(kind, names) == [k \in 1..Len(names) |-> Out(kind, <<names[k]>>)]

\* C9: the entrance step of a scene writes the title if it is non-empty and
\* then "[Enter X.]" for exactly the names X of this scene's cast that are
\* not in the previous scene's cast, in cast order; with no previous scene
\* that is the full cast, and against a cast of the same names it is nobody.
C9_EntranceStep ==
  [][pc = "enter" =>
       LET self == fragments[i]
           previous == IF i > 1 THEN NameSet(fragments[i - 1]) ELSE {}
           NotPrevious(n) == n \notin previous
           entering == SelectSeq(Names(self), NotPrevious)
       IN  /\ stdout' = stdout
                \o (IF self.scene_title # <<>>
                    THEN << Out("title", self.scene_title) >> ELSE <<>>)
                \o Announced("enter", entering)
           /\ i = 1 => entering = Names(self)
           /\ (i > 1 /\ NameSet(self) = previous) => entering = <<>>
    ]_vars

\* The second scene has just made its entrance: part of its cast was in the
\* first scene and part was not.
C9_Witness ==
  /\ pc = "recite"
  /\ i = 2
  /\ next_line_number = 0
  /\ NameSet(fragments[2]) \cap NameSet(fragments[1]) # {}
  /\ NameSet(fragments[2]) \ NameSet(fragments[1]) # {}
  /\ stdout[Len(stdout)][1] = "enter"

\* C10: the exit step of a scene writes "[Exit X.]" for exactly the names X
\* of this scene's cast that are not in the next scene's cast (all names when
\* there is no next scene), in the reverse of cast order.
C10_ExitStep ==
  [][pc = "exit" =>
       LET self == fragments[i]
           following == IF i < Len(fragments) THEN NameSet(fragments[i + 1])
                        ELSE {}
           NotFollowing(n) == n \notin following
           exiting == SelectSeq(Reverse(Names(self)), NotFollowing)
       IN  /\ Visible(SubSeq(stdout', Len(stdout) + 1, Len(stdout')))
                = Announced("exit", exiting)
           /\ IsPrefix(stdout, stdout')
           /\ i = Len(fragments) => exiting = Reverse(Names(self))
    ]_vars

\* The first scene has just made its exit before a second scene that shares
\* part of its cast, and a scene of two or more characters has left in full.
C10_Witness ==
  /\ pc = "exited"
  /\ Len(fragments) = 2
  /\ NameSet(fragments[1]) \cap NameSet(fragments[2]) # {}
  /\ NameSet(fragments[1]) \ NameSet(fragments[2]) # {}
  /\ Len(fragments[2].characters) >= 2
  /\ exit_code = SUCCESS
  /\ Len(stdout) >= 2
  /\ stdout[Len(stdout) - 1][1] = "exit"

\* What a step appended to stdout.
Appended == SubSeq(stdout', Len(stdout) + 1, Len(stdout'))

\* The names the two fragments have in common.
Shared(f, g) == NameSet(f) \cap NameSet(g)

\* C11: a character in the casts of two adjacent scenes stays on stage: the
\* step after scene i writes no "[Exit X.]" and the step before scene i+1
\* writes no "[Enter X.]" for a name X that is in both casts.
C11_SharedStayOnStage ==
  [][/\ (pc = "exit" /\ i < Len(fragments)) =>
          \A n \in Shared(fragments[i], fragments[i + 1]) :
            \A k \in 1..Len(Appended) : Appended[k] # Out("exit", <<n>>)
     /\ (pc = "enter" /\ i > 1) =>
          \A n \in Shared(fragments[i - 1], fragments[i]) :
            \A k \in 1..Len(Appended) : Appended[k] # Out("enter", <<n>>)
    ]_vars

\* The first scene has left and the second has come on; the two casts share
\* a character, each has one the other lacks, and an exit and an entrance
\* were announced between the two scenes.
C11_Witness ==
  /\ pc = "recite"
  /\ i = 2
  /\ Shared(fragments[1], fragments[2]) # {}
  /\ NameSet(fragments[1]) \ NameSet(fragments[2]) # {}
  /\ NameSet(fragments[2]) \ NameSet(fragments[1]) # {}
  /\ \E k \in 1..Len(stdout) - 1 :
       /\ stdout[k][1] = "exit"
       /\ \E j \in k + 1..Len(stdout) : stdout[j][1] = "enter"

\* Insert x behind every element whose number is not greater than its own.
RECURSIVE InsertByNumber(_, _)
InsertByNumber(sorted, x) ==
  IF sorted = <<>> THEN <<x>>
  ELSE IF sorted[Len(sorted)][1] <= x[1] THEN Append(sorted, x)
       ELSE Append(InsertByNumber(SubSeq(sorted, 1, Len(sorted) - 1), x),
                   sorted[Len(sorted)])

\* The lines in ascending order of number, equal numbers in the order given.
RECURSIVE StableByNumber(_)
StableByNumber(ls) ==
  IF ls = <<>> THEN <<>>
  ELSE InsertByNumber(StableByNumber(SubSeq(ls, 1, Len(ls) - 1)), ls[Len(ls)])

\* The (number, text) pairs of a dialogue file in the order of the file.
ParsedInFileOrder(file_name) ==
  AddScriptLines([lines |-> <<>>, err |-> <<>>],
                 grab_trimmed_file_lines(file_name).lines).lines

\* C12: after Player::prepare the lines of a character are those of its
\* dialogue file in ascending order of number, lines of the same number in
\* the order they have in the file whatever their texts.
C12_StableLineSort ==
  \A k \in 1..Len(threads) :
    threads[k].state = "finished" =>
      \A c \in 1..Len(threads[k].frag.characters) :
        \A n \in 1..Len(grab_trimmed_file_lines(threads[k].file).lines) :
          LET line == grab_trimmed_file_lines(threads[k].file).lines[n]
              player == threads[k].frag.characters[c]
          IN  (Len(line) >= CONFIG_LINE_TOKENS /\ line[1] = player.name) =>
                player.lines = StableByNumber(ParsedInFileOrder(line[2]))

\* The position of a character in the scene's config file.
ConfigPos(name) == CHOOSE k \in 1..Len(CastNames) : CastNames[k] = name

Silent(p) == Len(p.lines) = 0

AfterSceneSort == pc \in {"enter", "recite", "exit", "recite_done", "exited"}

\* C13: after SceneFragment::prepare the cast holds the characters of the
\* config file, every silent character before every non-silent one, the
\* non-silent ones in nondecreasing order of their first line number, and
\* two characters that are both silent or have the same first line number
\* in the order of the config file whatever their names are.
C13_CastOrder ==
  AfterSceneSort =>
    LET cs == fragments[1].characters
    IN  /\ {cs[k].name : k \in 1..Len(cs)} = {parts[k].name : k \in 1..Len(parts)}
        /\ Len(cs) = Len(parts)
        /\ \A a, b \in 1..Len(cs) :
             a < b =>
               /\ Silent(cs[b]) => Silent(cs[a])
               /\ (~Silent(cs[a]) /\ ~Silent(cs[b])) =>
                    cs[a].lines[1][1] <= cs[b].lines[1][1]
               /\ (\/ Silent(cs[a]) /\ Silent(cs[b])
                   \/ /\ ~Silent(cs[a]) /\ ~Silent(cs[b])
                      /\ cs[a].lines[1][1] = cs[b].lines[1][1]) =>
                    ConfigPos(cs[a].name) < ConfigPos(cs[b].name)

\* The sort has moved a silent character ahead of a speaking one that the
\* config file lists first.
C13_Witness ==
  /\ pc = "enter"
  /\ Len(fragments[1].characters) = 2
  /\ Silent(fragments[1].characters[1])
  /\ ~Silent(fragments[1].characters[2])
  /\ ConfigPos(fragments[1].characters[1].name)
       > ConfigPos(fragments[1].characters[2].name)

\* ---- what a run does with its input files, written without the verbose
\* ---- flag: the reference the runs with the flag on and off are held to.

\* The entries the script's lines give.
RECURSIVE QuietScript(_)
QuietScript(lines) ==
  IF lines = <<>> THEN <<>>
  ELSE LET tokens == Head(lines)
       IN  (IF Len(tokens) = 0 THEN <<>>
            ELSE IF tokens[1] = SCENE_INDICATOR
                 THEN (IF Len(tokens) = 1 THEN <<>>
                       ELSE << <<TRUE, Tail(tokens)>> >>)
                 ELSE << <<FALSE, tokens[1]>> >>)
           \o QuietScript(Tail(lines))

\* A dialogue line that is not empty and gives no (number, text) pair.
Malformed(line) ==
  \/ Len(line) = 1
  \/ Len(line) >= 2 /\ ParseUsize(line[1]) = NoNumber

\* The (number, text) pairs of the well-formed lines, in file order.
RECURSIVE QuietLines(_)
QuietLines(lines) ==
  IF lines = <<>> THEN <<>>
  ELSE (IF Len(Head(lines)) >= 2 /\ ~Malformed(Head(lines))
        THEN << <<ParseUsize(Head(lines)[1]), Head(lines)[2]>> >>
        ELSE <<>>) \o QuietLines(Tail(lines))

RECURSIVE CountMalformed(_)
CountMalformed(lines) ==
  IF lines = <<>> THEN 0
  ELSE (IF Malformed(Head(lines)) THEN 1 ELSE 0) + CountMalformed(Tail(lines))

\* The lines of a scene's config file that name a character, if the file
\* can be used at all.
QuietPlayConfig(config_file_name) ==
  LET read == grab_trimmed_file_lines(config_file_name)
      Usable(line) == Len(line) >= CONFIG_LINE_TOKENS
  IN  IF read.ok /\ Len(read.lines) >= MIN_CONFIG_LINES
      THEN SelectSeq(read.lines, Usable) ELSE <<>>

\* The scene of a config-file entry: whether its thread panics, the fragment
\* it returns otherwise, the malformed dialogue lines it comes across.
QuietScene(t, config_file_name) ==
  LET pcfg == QuietPlayConfig(config_file_name)
      FileOf(k) == grab_trimmed_file_lines(pcfg[k][2])
      cast == [k \in 1..Len(pcfg) |->
                 [name |-> pcfg[k][1],
                  lines |-> SortLines(QuietLines(FileOf(k).lines)),
                  line_index |-> 0]]
      RECURSIVE Bad(_)
      Bad(k) == IF k > Len(pcfg) THEN 0
                ELSE CountMalformed(FileOf(k).lines) + Bad(k + 1)
  IN  [panicked |-> \E k \in 1..Len(pcfg) : ~FileOf(k).ok,
       frag |-> [scene_title |-> t, characters |-> SortCast(cast)],
       malformed |-> Bad(1)]

\* The scenes of the script's config-file entries, in order.
RECURSIVE QuietScenes(_, _)
QuietScenes(entries, t) ==
  IF entries = <<>> THEN <<>>
  ELSE IF Head(entries)[1] THEN QuietScenes(Tail(entries), Head(entries)[2])
  ELSE << QuietScene(t, Head(entries)[2]) >> \o QuietScenes(Tail(entries), <<>>)

\* The dialogue of one scene.
RECURSIVE QuietDialogue(_, _)
QuietDialogue(characters, speaker) ==
  IF MinLine(characters) = NoLine THEN <<>>
  ELSE LET r == SpeakLoop([characters |-> characters, cur_speaker |-> speaker,
                           out |-> <<>>, num_speakers |-> 0],
                          1, MinLine(characters))
       IN  r.out \o QuietDialogue(r.characters, r.cur_speaker)

\* The transcript of the scenes from the k-th on.
RECURSIVE QuietRecital(_, _)
QuietRecital(frags, k) ==
  IF k > Len(frags) THEN <<>>
  ELSE (IF k > 1 THEN enter(frags[k], frags[k - 1]) ELSE enter_all(frags[k]))
       \o QuietDialogue(frags[k].characters, "")
       \o (IF k < Len(frags) THEN exit(frags[k], frags[k + 1])
           ELSE exit_all(frags[k]))
       \o QuietRecital(frags, k + 1)

\* Exit code and stdout of the run on a script.
QuietRun(script) ==
  LET scenes == QuietScenes(QuietScript(script.lines), <<>>)
      frags == [k \in 1..Len(scenes) |-> scenes[k].frag]
  IN  IF \/ ~script.ok
         \/ Len(script.lines) = 0
         \/ \E k \in 1..Len(scenes) : scenes[k].panicked
         \/ Len(scenes) = 0
         \/ scenes[1].frag.scene_title = <<>>
      THEN [exit_code |-> ERR_SCRIPT_GEN, stdout |-> <<>>]
      ELSE [exit_code |-> SUCCESS, stdout |-> QuietRecital(frags, 1)]

\* The warnings about dialogue lines among the diagnostics of a thread.
DialogueWarnings(err) ==
  LET AboutLine(e) == e[1] = "warning" /\ e[2] \in {"single token", "not usize"}
  IN  SelectSeq(err, AboutLine)

\* C14: the stdout transcript and the exit code of a run are those the input
\* files determine, with the verbose flag on as with it off; a malformed
\* dialogue line is left out of the transcript either way, and a scene's
\* thread writes one warning for each such line if the flag is on and none
\* if it is off.
C14_VerboseChangesStderrOnly ==
  /\ stdout # <<>> => IsPrefix(stdout, QuietRun(script_file).stdout)
  /\ pc = "exited" =>
       /\ stdout = QuietRun(script_file).stdout
       /\ exit_code = QuietRun(script_file).exit_code
  /\ \A k \in 1..Len(threads) :
       threads[k].state = "finished" =>
         Len(DialogueWarnings(threads[k].err))
           = IF whinge
             THEN QuietScene(<<>>, threads[k].file).malformed
             ELSE 0

\* A verbose run has recited a scene one of whose dialogue files has
\* malformed lines: they were warned about and the play was spoken.
C14_Witness ==
  /\ pc = "exited"
  /\ exit_code = SUCCESS
  /\ whinge
  /\ \E k \in 1..Len(threads) : Len(DialogueWarnings(threads[k].err)) >= 2
  /\ \E k \in 1..Len(stdout) : stdout[k][1] = "line"

\* Every diagnostic in the sequence is a fatal one.
OnlyFatal(err) == \A k \in 1..Len(err) : err[k][1] = "fatal"

PendingTitle(p) ==
  LET configs == {q \in 1..p - 1 : ~script_config[q][1]}
      prev == IF configs = {} THEN 0
              ELSE CHOOSE q \in configs : \A r \in configs : r <= q
      titles == {q \in prev + 1..p - 1 : script_config[q][1]}
  IN  IF titles = {} THEN <<>>
      ELSE script_config[CHOOSE q \in titles : \A r \in titles : r <= q][2]

\* The entries process_config has gone through.
Dispatched == IF pc = "read_config" THEN 0 ELSE idx - 1

\* C16: process_config spawns one fragment per config-file entry and none
\* for a title; the fragment of a config-file entry carries the last title
\* that stands between the previous config-file entry and its own (an empty
\* one if none does), so a title goes to at most one fragment and of titles
\* in a row only the last is used; the buffer holds the pending title and is
\* empty right after a dispatch.
C16_TitleOfFragment ==
  /\ Len(threads)
       = Cardinality({q \in 1..Dispatched : ~script_config[q][1]})
  /\ \A k \in 1..Len(threads) :
       threads[k].frag.scene_title = PendingTitle(EntryPos(k))
  /\ title = PendingTitle(Dispatched + 1)
  /\ (Dispatched >= 1 /\ ~script_config[Dispatched][1]) => title = <<>>

\* Both entries of a script of two different titles and a config file have
\* been gone through: its one fragment carries the second title.
C16_Witness ==
  /\ pc = "dispatch"
  /\ Len(script_config) = 3
  /\ idx = 4
  /\ script_config[1][1] /\ script_config[2][1] /\ ~script_config[3][1]
  /\ script_config[1][2] # script_config[2][2]
  /\ Len(threads) = 1
  /\ threads[1].frag.scene_title = script_config[2][2]

\* The lines of the config file of thread k.
ConfigLines(k) == grab_trimmed_file_lines(threads[k].file).lines

\* The thread's config file can be read and is long enough, and so can the
\* dialogue file of every line of two or more tokens be read.
SceneCanBePrepared(k) ==
  /\ grab_trimmed_file_lines(threads[k].file).ok
  /\ Len(ConfigLines(k)) >= MIN_CONFIG_LINES
  /\ \A n \in 1..Len(ConfigLines(k)) :
       Len(ConfigLines(k)[n]) >= 2 =>
         grab_trimmed_file_lines(ConfigLines(k)[n][2]).ok

\* The names on the lines of count tokens of the config file of thread k.
NamesOnLines(k, count) ==
  {ConfigLines(k)[n][1] :
     n \in {m \in 1..Len(ConfigLines(k)) : Len(ConfigLines(k)[m]) = count}}

\* The names on its lines of two or more tokens.
NamesOnLongLines(k) ==
  {ConfigLines(k)[n][1] :
     n \in {m \in 1..Len(ConfigLines(k)) :
              Len(ConfigLines(k)[m]) >= CONFIG_LINE_TOKENS}}

\* C17 as stated: the cast of a prepared scene has a character for the
\* lines of exactly two tokens of its config file and for no other line.
C17_ExactlyTwoTokens ==
  \A k \in 1..Len(threads) :
    (threads[k].state # "running" /\ SceneCanBePrepared(k)) =>
      /\ threads[k].state = "finished"
      /\ NameSet(threads[k].frag) = NamesOnLines(k, CONFIG_LINE_TOKENS)

\* C17, amended: the cast of a prepared scene has one character for each
\* line of two or more tokens of its config file, named by the first token,
\* and none for a line of no or one token; no line, whatever its number of
\* tokens, keeps the scene from being prepared.
C17_AtLeastTwoTokens ==
  \A k \in 1..Len(threads) :
    (threads[k].state # "running" /\ SceneCanBePrepared(k)) =>
      /\ threads[k].state = "finished"
      /\ NameSet(threads[k].frag) = NamesOnLongLines(k)
      /\ Len(threads[k].frag.characters)
           = Cardinality({n \in 1..Len(ConfigLines(k)) :
                            Len(ConfigLines(k)[n]) >= CONFIG_LINE_TOKENS})
      /\ NameSet(threads[k].frag) \cap NamesOnLines(k, 1) = {}

\* A scene was prepared from a config file with lines of no, one, two and
\* three tokens: the name on the line of three tokens is in the cast, the
\* one on the line of one token is not.
C17_Witness ==
  \E k \in 1..Len(threads) :
    /\ threads[k].state = "finished"
    /\ {Len(ConfigLines(k)[n]) : n \in 1..Len(ConfigLines(k))} = {0, 1, 2, 3}
    /\ NamesOnLines(k, 3) # {}
    /\ NamesOnLines(k, 3) \subseteq NameSet(threads[k].frag)
    /\ NamesOnLines(k, 1) # {}
    /\ NamesOnLines(k, 1) \cap NameSet(threads[k].frag) = {}

\* The token is a non-negative integer as usize reads one: decimal digits,
\* possibly behind a '+', of a value up to usize::MAX.
UnsignedDigits(tok) == IF tok # <<>> /\ tok[1] = "+" THEN Tail(tok) ELSE tok

IsUsize(tok) ==
  /\ UnsignedDigits(tok) # <<>>
  /\ \A k \in 1..Len(UnsignedDigits(tok)) : UnsignedDigits(tok)[k] \in Digits
  /\ ~Overflows(UnsignedDigits(tok))

\* C18: a step of Player::prepare's loop over a non-empty line always goes
\* on to the next line; it leaves the character's lines as they are if the
\* line is a single token or its first token is no non-negative integer,
\* and otherwise appends the one pair of that integer and the rest of the
\* line to them.
C18_AddScriptLine ==
  [][(pc = "add_script_line" /\ parts[CurPart].unread # <<>>) =>
       LET unparsed_line == Head(parts[CurPart].unread)
           lines == parts[CurPart].lines
       IN  /\ pc' = "add_script_line"
           /\ parts'[CurPart].unread = Tail(parts[CurPart].unread)
           /\ parts'[CurPart].lines =
                IF Len(unparsed_line) = 1 \/ ~IsUsize(unparsed_line[1])
                THEN lines
                ELSE Append(lines,
                            <<DecimalValue(StripZeros(
                                UnsignedDigits(unparsed_line[1]))),
                              unparsed_line[2]>>)
    ]_vars

\* A file of two lines has been read by a verbose run: one line was dropped
\* with a warning, the other, numbered '+1', gave the pair (1, text).
C18_Witness ==
  /\ pc = "add_script_line"
  /\ whinge
  /\ Len(parts) >= 1
  /\ parts[1].unread = <<>>
  /\ parts[1].lines = << <<1, "A">> >>
  /\ Len(stderr) = 1

\* The characters of the scene being recited.
Cast == fragments[i].characters

\* The numbers of the lines a character has yet to speak.
Pending(c) == {c.lines[n][1] : n \in c.line_index + 1..Len(c.lines)}

\* The numbers of the lines a cast has yet to speak.
AllPending(cs) == UNION {Pending(cs[k]) : k \in 1..Len(cs)}

Least(S) == CHOOSE m \in S : \A n \in S : m <= n

\* The dialogue lines among what was written to stdout.
SpokenTexts(out) ==
  LET IsLine(e) == e[1] = "line"
      lines == SelectSeq(out, IsLine)
  IN  [k \in 1..Len(lines) |-> lines[k][2][1]]

\* C19: a step of the recital of a scene speaks lines of the least number
\* any character of the cast has yet to speak and of no other number: one
\* line of each character whose next line has that number, in cast order.
\* No line left after the step has a smaller number, so the numbers of the
\* lines of a scene are spoken in nondecreasing order.
C19_SpeaksLeastPending ==
  [][(pc = "recite" /\ AllPending(Cast) # {}) =>
       LET m == Least(AllPending(Cast))
           Speaks(k) == Cast'[k].line_index = Cast[k].line_index + 1
           speakers == SelectSeq([k \in 1..Len(Cast) |-> k], Speaks)
       IN  /\ \A k \in 1..Len(Cast) :
                /\ Speaks(k) \/ Cast'[k].line_index = Cast[k].line_index
                /\ Speaks(k) <=>
                     /\ Cast[k].line_index < Len(Cast[k].lines)
                     /\ Cast[k].lines[Cast[k].line_index + 1][1] = m
           /\ speakers # <<>>
           /\ SpokenTexts(Appended)
                = [n \in 1..Len(speakers) |->
                     Cast[speakers[n]].lines[Cast[speakers[n]].line_index + 1][2]]
           /\ \A n \in AllPending(Cast') : n >= m
    ]_vars

\* A scene of two characters has been spoken to its end in more than one
\* step: its lines have the numbers 1 and 2, and both characters had a line
\* of the same number.
C19_Witness ==
  /\ pc = "recite"
  /\ Len(Cast) = 2
  /\ AllPending(Cast) = {}
  /\ {Cast[1].lines[n][1] : n \in 1..Len(Cast[1].lines)} = {1, 2}
  /\ Cast[2].lines # <<>>
  /\ Cast[2].lines[1][1] = 2

\* How many of the dialogue lines written to stdout have the text t.
TimesSpoken(t) ==
  LET Is(x) == x = t
  IN  Len(SelectSeq(SpokenTexts(stdout), Is))

\* How many lines of the cast have the text t.
TimesInCast(t) ==
  SumOver([k \in 1..Len(Cast) |->
             Cardinality({n \in 1..Len(Cast[k].lines) : Cast[k].lines[n][2] = t})],
          Len(Cast))

\* In a step of the recital a cursor stays or goes on by one, not beyond
\* the end of the lines, and the cursors go on by as many lines as are
\* written to stdout.
CursorStep ==
  pc = "recite" =>
    /\ \A k \in 1..Len(Cast) :
         /\ Cast'[k].line_index \in {Cast[k].line_index, Cast[k].line_index + 1}
         /\ Cast'[k].line_index <= Len(Cast[k].lines)
         /\ Cast'[k].lines = Cast[k].lines
    /\ SumOver([k \in 1..Len(Cast) |->
                  Cast'[k].line_index - Cast[k].line_index], Len(Cast))
         = Len(SpokenTexts(Appended))

\* SceneFragment::recite has returned with every cursor at the end of its
\* lines and every line written once.
RecitedInFull ==
  pc = "exit" =>
    /\ \A k \in 1..Len(Cast) : Cast[k].line_index = Len(Cast[k].lines)
    /\ \A t \in DOMAIN TextRank : TimesSpoken(t) = TimesInCast(t)

\* The lines the cast has yet to speak.
Unspoken ==
  SumOver([k \in 1..Len(Cast) |-> Len(Cast[k].lines) - Cast[k].line_index],
          Len(Cast))

\* An iteration of recite's loop is the last or leaves fewer lines to speak;
\* their number is never negative.
LoopVariant ==
  pc = "recite" =>
    /\ Unspoken >= 0
    /\ pc' = "exit" \/ (pc' = "recite" /\ Unspoken' < Unspoken)
    /\ pc' = "exit" => Unspoken = 0

\* C20: the recital of a scene comes to its end whatever the cast is: each
\* iteration of its loop, which nothing can hold up, is the last or lowers
\* the number of lines left to speak, which cannot fall below 0.  At the
\* end every cursor is at the end of its character's lines and every line
\* has been written exactly once; on the way a cursor never goes back, goes
\* on by one for each line spoken and never passes the end.
C20_ReciteTerminates ==
  /\ [][CursorStep /\ LoopVariant]_vars
  /\ [](RecitedInFull)

\* The recital of a scene of two characters with three or more lines, two
\* of them with the same text, has returned.
C20_Witness ==
  /\ pc = "exit"
  /\ Len(Cast) = 2
  /\ Len(Cast[1].lines) + Len(Cast[2].lines) >= 3
  /\ TimesSpoken("A") >= 2
  /\ TimesSpoken("B") >= 1

\* The character who spoke last in the play so far: the one of the last name
\* line written, "" before anyone has spoken.
LastSpeakerInPlay ==
  LET IsName(e) == e[1] = "speaker"
      names == SelectSeq(stdout, IsName)
  IN  IF names = <<>> THEN "" ELSE names[Len(names)][2][1]

\* The characters who speak in the coming step of the recital, in cast order.
Speakers ==
  LET HasLeast(k) == next_line(Cast[k]) = MinLine(Cast)
  IN  SelectSeq([k \in 1..Len(Cast) |-> k], HasLeast)

\* C21: a character's line is written behind a line with the character's
\* name if and only if the one who spoke before it, in this scene or in an
\* earlier one, is another character.
C21_NameIffSpeakerChanges ==
  [][(pc = "recite" /\ MinLine(Cast) # NoLine) =>
       LET Before(n) == IF n = 1 THEN LastSpeakerInPlay
                        ELSE Cast[Speakers[n - 1]].name
           Said(n) ==
             LET c == Cast[Speakers[n]]
             IN  (IF c.name # Before(n) THEN << Out("speaker", <<c.name>>) >>
                  ELSE <<>>)
                 \o << Out("line", <<c.lines[c.line_index + 1][2]>>) >>
           RECURSIVE SaidFrom(_)
           SaidFrom(n) == IF n > Len(Speakers) THEN <<>>
                          ELSE Said(n) \o SaidFrom(n + 1)
       IN  Appended = SaidFrom(1)
    ]_vars

\* What a step appended to stderr.
AppendedErr == SubSeq(stderr', Len(stderr) + 1, Len(stderr'))

\* The warnings about missing lines among some diagnostics.
MissingLines(err) ==
  LET IsGap(e) == e[1] = "warning" /\ e[2] = "missing line"
  IN  SelectSeq(err, IsGap)

\* C22: the expected-line cursor is 0 when the recital of a scene begins.
\* A step of the recital with least pending number m and cursor e writes, if
\* verbose, a warning for each of e, e+1, ..., m-1 in this order and none
\* otherwise; it leaves the cursor above both m and e, so the cursor has
\* reached m by the time the lines of number m are spoken and never goes
\* down within the scene.
C22_GapWarnings ==
  [][/\ pc = "enter" => next_line_number' = 0
     /\ (pc = "recite" /\ MinLine(Cast) # NoLine) =>
          LET m == MinLine(Cast)
              e == next_line_number
          IN  /\ MissingLines(AppendedErr)
                   = IF whinge /\ m > e
                     THEN [n \in 1..m - e |-> Warning("missing line", e + n - 1)]
                     ELSE <<>>
              /\ next_line_number' = (IF m > e THEN m ELSE e) + 1
              /\ next_line_number' > m
              /\ next_line_number' > e
     /\ (pc = "recite" /\ MinLine(Cast) = NoLine) =>
          /\ next_line_number' = next_line_number
          /\ AppendedErr = <<>>
    ]_vars

\* A verbose run is at the end of its second scene: line 0 was missed in
\* each of the two scenes, and in the second one lines were spoken whose
\* number was below the cursor, which is now more than one above the
\* highest line number of the scene.
C22_Witness ==
  /\ pc = "exit"
  /\ i = 2
  /\ whinge
  /\ LET IsZero(e) == e = Warning("missing line", 0)
     IN  Len(SelectSeq(stderr, IsZero)) = 2
  /\ \A k \in 1..Len(Cast) : \A n \in 1..Len(Cast[k].lines) :
       next_line_number > Cast[k].lines[n][1] + 1

\* The warnings about the number of speakers among some diagnostics.
SpeakerWarnings(err) ==
  LET IsCount(e) == e[1] = "warning" /\ e[2] = "speakers"
  IN  SelectSeq(err, IsCount)

\* C23: in a step of the recital with least pending number m, each character
\* whose next line has the number m speaks that one line, the others none,
\* and the lines come in cast order; the cursor ends one above where the
\* skipping of missing lines left it, however many have spoken; a warning
\* about the number of speakers is written if and only if the run is verbose
\* and that number is not 1, and the recital goes on either way.
C23_MergeStep ==
  [][(pc = "recite" /\ MinLine(Cast) # NoLine) =>
       LET m == MinLine(Cast)
           e == next_line_number
           Holds(k) == /\ Cast[k].line_index < Len(Cast[k].lines)
                       /\ Cast[k].lines[Cast[k].line_index + 1][1] = m
           holders == SelectSeq([k \in 1..Len(Cast) |-> k], Holds)
       IN  /\ \A k \in 1..Len(Cast) :
                Cast'[k] = [Cast[k] EXCEPT !.line_index =
                                             IF Holds(k) THEN @ + 1 ELSE @]
           /\ SpokenTexts(Appended)
                = [n \in 1..Len(holders) |->
                     Cast[holders[n]].lines[Cast[holders[n]].line_index + 1][2]]
           /\ next_line_number' = (IF m > e THEN m ELSE e) + 1
           /\ SpeakerWarnings(AppendedErr)
                = IF whinge /\ Len(holders) # 1
                  THEN << Warning("speakers", <<Len(holders), m>>) >>
                  ELSE <<>>
           /\ pc' = "recite"
    ]_vars

\* A verbose recital has come to its end after a step in which two
\* characters spoke their lines of number 2, which was warned about.
C23_Witness ==
  /\ pc = "exit"
  /\ whinge
  /\ SpeakerWarnings(stderr) = << Warning("speakers", <<2, 2>>) >>
  /\ Len(SpokenTexts(stdout)) >= 3
  /\ \A k \in 1..Len(Cast) : Cast[k].line_index = Len(Cast[k].lines)

\* The positions of the blank lines in stdout: one opens and one closes the
\* exits of each scene.
BlankPositions ==
  LET IsBlankAt(k) == stdout[k][1] = "blank"
  IN  SelectSeq([k \in 1..Len(stdout) |-> k], IsBlankAt)

\* What the k-th scene has written, from behind the exits of the scene
\* before it to the end of its own exits (or of stdout).
SceneOutput(k) ==
  LET from == IF k = 1 THEN 1 ELSE BlankPositions[2 * k - 2] + 1
      to == IF Len(BlankPositions) >= 2 * k THEN BlankPositions[2 * k]
            ELSE Len(stdout)
  IN  SubSeq(stdout, from, to)

\* The kinds of the events of one scene come as entrance, dialogue, exit.
RECURSIVE InSceneOrder(_, _, _)
InSceneOrder(out, k, phase) ==
  IF k > Len(out) THEN TRUE
  ELSE LET kind == out[k][1]
       IN  CASE phase = "entrance" /\ kind = "title" /\ k = 1 ->
                  InSceneOrder(out, k + 1, "entrance")
             [] phase = "entrance" /\ kind = "enter" ->
                  InSceneOrder(out, k + 1, "entrance")
             [] phase \in {"entrance", "dialogue"} /\ kind \in {"speaker", "line"} ->
                  InSceneOrder(out, k + 1, "dialogue")
             [] phase \in {"entrance", "dialogue"} /\ kind = "blank" ->
                  InSceneOrder(out, k + 1, "exit")
             [] phase = "exit" /\ kind = "exit" ->
                  InSceneOrder(out, k + 1, "exit")
             [] phase = "exit" /\ kind = "blank" /\ k = Len(out) -> TRUE
             [] OTHER -> FALSE

\* The reciter is at fragment i.
AtFragment == pc \in {"enter", "recite", "exit"}

\* The lines of a fragment.
LinesOf(frag) ==
  SumOver([k \in 1..Len(frag.characters) |-> Len(frag.characters[k].lines)],
          Len(frag.characters))

\* The fragments before i have been performed, each once and in full, one
\* behind the other in stdout, fragment i is being performed and of those
\* behind it nothing has been spoken.
PerformedInOrder ==
  (AtFragment \/ pc = "recite_done" \/ (pc = "exited" /\ exit_code = SUCCESS)) =>
    /\ i \in 1..Len(fragments) + 1
    /\ AtFragment <=> i <= Len(fragments)
    /\ Len(BlankPositions) = 2 * (i - 1)
    /\ \A k \in 1..Len(fragments) :
         /\ k < i =>
              /\ InSceneOrder(SceneOutput(k), 1, "entrance")
              /\ Len(SpokenTexts(SceneOutput(k))) = LinesOf(fragments[k])
              /\ fragments[k].scene_title # <<>> =>
                   SceneOutput(k)[1] = Out("title", fragments[k].scene_title)
              /\ \A c \in 1..Len(fragments[k].characters) :
                   fragments[k].characters[c].line_index
                     = Len(fragments[k].characters[c].lines)
         /\ k > i => \A c \in 1..Len(fragments[k].characters) :
                       fragments[k].characters[c].line_index = 0
    /\ AtFragment =>
         /\ InSceneOrder(SceneOutput(i), 1, "entrance")
         /\ \A n \in 1..Len(SceneOutput(i)) :
              SceneOutput(i)[n][1] \notin {"blank", "exit"}
         /\ pc = "enter" =>
              /\ SceneOutput(i) = <<>>
              /\ \A c \in 1..Len(Cast) : Cast[c].line_index = 0

\* The steps of the reciter: entrance, dialogue and exit of fragment i, then
\* fragment i + 1 or, behind the last fragment, the end; each step of the
\* dialogue that is not its last leaves fewer lines to speak.
ReciterStep ==
  /\ pc = "enter" => pc' = "recite" /\ i' = i
  /\ pc = "recite" =>
       /\ i' = i
       /\ pc' = "exit" \/ (pc' = "recite" /\ Unspoken' < Unspoken)
  /\ pc = "exit" =>
       /\ i' = i + 1
       /\ pc' = IF i = Len(fragments) THEN "recite_done" ELSE "enter"
  /\ pc = "recite_done" => pc' = "exited" /\ exit_code' = SUCCESS

\* C24: the reciter performs the fragments in the order of their indices,
\* each once: for each it makes the entrance, speaks all the dialogue and
\* makes the exit, and nothing of a fragment is written before the exit of
\* the one before it; behind the exit of the last fragment it comes to its
\* end.
C24_FragmentsInOrder ==
  /\ [][ReciterStep]_vars
  /\ [](PerformedInOrder)

\* A play of two scenes with dialogue has been recited to its end.
C24_Witness ==
  /\ pc = "exited"
  /\ exit_code = SUCCESS
  /\ Len(fragments) = 2
  /\ i = 3
  /\ Len(SpokenTexts(SceneOutput(1))) >= 2
  /\ Len(SpokenTexts(SceneOutput(2))) >= 2
  /\ SceneOutput(1) \o SceneOutput(2) = stdout

\* The fragments whose guards are alive behind the first n events of
\* locking, in the order they were locked.
RECURSIVE Held(_)
Held(n) ==
  IF n = 0 THEN <<>>
  ELSE LET ev == locking[n]
           NotIt(k) == k # ev[2]
       IN  IF ev[1] = "lock" THEN Append(Held(n - 1), ev[2])
           ELSE SelectSeq(Held(n - 1), NotIt)

\* The fragments locked as the current one (with no guard alive), in order.
LockedAsCurrent ==
  LET AsCurrent(n) == locking[n][1] = "lock" /\ Held(n - 1) = <<>>
      at == SelectSeq([n \in 1..Len(locking) |-> n], AsCurrent)
  IN  [k \in 1..Len(at) |-> locking[at[k]][2]]

\* C25: while the play is recited a neighbour's lock is taken only while
\* the current fragment's lock is held and never the other way round, at
\* most two fragment locks are held at a time, and all locks taken for a
\* fragment are released before the next fragment is locked as the current
\* one; no lock is asked for while it is held, and no other thread is left
\* to hold one, so that the reciter never waits for a fragment lock.
C25_LockOrder ==
  /\ \A n \in 0..Len(locking) :
       /\ Len(Held(n)) <= 2
       /\ Len(Held(n)) = 2 => Held(n)[2] \in {Held(n)[1] - 1, Held(n)[1] + 1}
       /\ n < Len(locking) =>
            LET ev == locking[n + 1]
                IsHeld == \E h \in 1..Len(Held(n)) : Held(n)[h] = ev[2]
            IN  /\ ev[2] \in 1..Len(fragments)
                /\ ev[1] = "lock" => ~IsHeld /\ Len(Held(n)) <= 1
                /\ ev[1] = "unlock" => IsHeld
  /\ AtFragment =>
       LockedAsCurrent = [k \in 1..(IF pc = "enter" THEN i - 1 ELSE i) |-> k]
  /\ AtFragment \/ pc = "recite_done" => joined = Len(threads)
  /\ pc \in {"recite", "exit"} => Held(Len(locking)) = << i >>
  /\ pc \in {"enter", "recite_done", "exited"} => Held(Len(locking)) = <<>>
  /\ pc = "recite_done" => LockedAsCurrent = [k \in 1..Len(fragments) |-> k]

\* A play of two scenes has been recited: each fragment was locked as the
\* current one and, while it was, its neighbour was locked and released.
C25_Witness ==
  /\ pc = "exited"
  /\ exit_code = SUCCESS
  /\ locking = << Lock(1), Lock(2), Unlock(2), Unlock(1),
                  Lock(2), Lock(1), Unlock(1), Unlock(2) >>
  /\ Held(2) = << 1, 2 >>
  /\ Held(6) = << 2, 1 >>

====
